---- MODULE Spec2Model ----
(***************************************************************************)
(* CPAP EOB calculator (FSlogic_WM_fixed.py): the monthly rental schedule, *)
(* the totals and the editable setup-charges table of the Streamlit script.*)
(*                                                                         *)
(* Money.  The script computes in floating-point dollars.  Every input is  *)
(* an amount in whole cents and the coinsurance rate a whole percentage,   *)
(* so every intermediate value is a multiple of 1/100 cent.  The model     *)
(* keeps each amount as the exact integer number of hundredths of a cent   *)
(* (Unit = 1 cent = 100).  round(x, 2) rounds to the nearest cent; when x  *)
(* lies exactly halfway between two cents the binary float holding it lies *)
(* just above or just below the tie (72.785 rounds to 72.78, 62.805 to     *)
(* 62.81), so at a tie either neighbouring cent is a possible result.      *)
(*                                                                         *)
(* Control.  Streamlit runs the script top to bottom on every interaction. *)
(* pc = "loop" is the position inside the for-loop of lines 97-133 (one    *)
(* MonthIter step per iteration); pc = "ui" is the rendered page, waiting  *)
(* for the next interaction, each of which starts a new run.               *)
(***************************************************************************)
EXTENDS Integers, Sequences, FiniteSets, TLC

VARIABLES
    fee_schedule,        \* lines 51-59
    eff_month,           \* eff_date.month, line 31
    deductible_total,    \* line 32
    deductible_met,      \* line 35
    oop_max,             \* line 38
    oop_met,             \* line 41
    coinsurance_rate,    \* line 44, as the percentage entered (rate * 100)
    reset_month,         \* reset_date.month, line 48
    editor,              \* st.data_editor widget state: row -> << edited price >>, or NoEdit
    button,              \* "Generate PDF Report" pressed for the current run
    pc,                  \* "loop" | "ui"
    m,                   \* loop variable of line 97
    year_ded_remaining,  \* line 93
    oop_remaining,       \* line 63
    schedule,            \* line 94
    log,                 \* per iteration: the values in force at line 106 and after line 127
    df_setup,            \* prices of the setup table, lines 80 and 170
    setup_total,         \* "Setup Total" shown by line 173
    estimated_patient,   \* line 140
    estimated_insurance, \* line 141
    total_all_upfront,   \* line 142
    pdf                  \* totals written into the generated document, or NoPdf

vars == << fee_schedule, eff_month, deductible_total, deductible_met, oop_max,
           oop_met, coinsurance_rate, reset_month, editor, button, pc, m,
           year_ded_remaining, oop_remaining, schedule, log, df_setup,
           setup_total, estimated_patient, estimated_insurance,
           total_all_upfront, pdf >>

params == << fee_schedule, eff_month, deductible_total, deductible_met, oop_max,
             oop_met, coinsurance_rate, reset_month >>

outputs == << df_setup, setup_total, estimated_patient, estimated_insurance,
              total_all_upfront, pdf >>

----------------------------------------------------------------------------
(* Arithmetic helpers *)

\* hundredths of a cent per cent: the "/ 100.0" of line 47 applied to cents
Unit == 100

Cents(c) == c * Unit

Min(a, b) == IF a <= b THEN a ELSE b

Max(a, b) == IF a >= b THEN a ELSE b

Abs(a) == IF a >= 0 THEN a ELSE 0 - a

\* round(x, 2), lines 72, 78, 131, 132: the set of results the float
\* computation can give; one value, the nearest cent, unless x is a tie
Round2(x) ==
    LET q == x \div Unit
        r == x % Unit
    IN  IF 2 * r < Unit THEN {q * Unit}
        ELSE IF 2 * r > Unit THEN {(q + 1) * Unit}
        ELSE {q * Unit, (q + 1) * Unit}

RECURSIVE SumSeq(_)
SumSeq(s) == IF s = << >> THEN 0 ELSE Head(s) + SumSeq(Tail(s))

RECURSIVE MaxSeq(_)
MaxSeq(s) == IF Len(s) = 1 THEN s[1] ELSE Max(Head(s), MaxSeq(Tail(s)))

IsMonthly(i) == i.type = "monthly"

IsOneTime(i) == i.type = "one-time"

\* calendar.month_name, line 101
month_name ==
    << "January", "February", "March", "April", "May", "June", "July",
       "August", "September", "October", "November", "December" >>

----------------------------------------------------------------------------
(* The fee schedule, lines 51-59 *)

FeeSchedule(device_months, humidifier_months) ==
    << [code |-> "E0601", charge |-> Cents(7318), type |-> "monthly",
        months |-> device_months],
       [code |-> "E0562", charge |-> Cents(2238), type |-> "monthly",
        months |-> humidifier_months],
       [code |-> "A7037", charge |-> Cents(2552), type |-> "one-time"],
       [code |-> "A7038", charge |-> Cents(369), type |-> "one-time"],
       [code |-> "A7034", charge |-> Cents(14203), type |-> "one-time"],
       [code |-> "A7035", charge |-> Cents(2722), type |-> "one-time"],
       [code |-> "A7033", charge |-> Cents(5303), type |-> "one-time"] >>

\* "months": 10 of both Monthly items, lines 52-53
RentalMonths == 10

DefaultFeeSchedule == FeeSchedule(RentalMonths, RentalMonths)

----------------------------------------------------------------------------
(* The engine, lines 61-142 *)

\* lines 62-63, 93: max(total - met, 0.0)
InitialRemaining(total, met) == Max(total - met, 0)

\* lines 66-80: one row per item, Price = round(charge, 2); a charge is a
\* whole number of cents, which round(_, 2) returns unchanged
BuildSetup(fs) == [k \in 1..Len(fs) |-> CHOOSE p \in Round2(fs[k].charge) : TRUE]

MonthsColumn(items) == [k \in 1..Len(items) |-> items[k].months]

\* line 95: max(i["months"] for i in fee_schedule if i["type"]=="monthly")
MaxMonths(fs) == MaxSeq(MonthsColumn(SelectSeq(fs, IsMonthly)))

ChargeOf(i) == i.charge

\* lines 98, 139: sum(i["charge"] for i in fee_schedule if i["type"]=="monthly")
MonthlyTotal(fs) ==
    SumSeq([k \in 1..Len(fs) |-> IF IsMonthly(fs[k]) THEN ChargeOf(fs[k]) ELSE 0])

\* line 98: the amount allowed in rental month mm
Allowed(fs, mm) == MonthlyTotal(fs)

\* line 138
SupplyTotal(fs) ==
    SumSeq([k \in 1..Len(fs) |-> IF IsOneTime(fs[k]) THEN ChargeOf(fs[k]) ELSE 0])

\* line 100 counting from the effective month itself: one month late
MonthIndex_OneLate(eff, mm) == ((eff + mm - 1) % 12) + 1

\* line 100
MonthIndex(eff, mm) == ((eff + mm - 2) % 12) + 1

\* line 103 with >= for ==: resets in every month from the reset month on
ResetDue_FromResetMonthOn(month_index, reset) == month_index >= reset

\* line 103
ResetDue(month_index, reset) == month_index = reset

\* lines 103-104
AfterReset(month_index, reset, ded_total, yded) ==
    IF ResetDue(month_index, reset) THEN ded_total ELSE yded

\* lines 107-114 without line 111's subtraction: the whole charge goes on
\* to the coinsurance phase
DeductiblePhase_KeepsCharge(allowed, yded) ==
    IF yded > 0
    THEN LET use == Min(allowed, yded)
         IN  [pat |-> use, yded |-> yded - use, rem |-> allowed]
    ELSE [pat |-> 0, yded |-> yded, rem |-> allowed]

\* lines 107-114
DeductiblePhase(allowed, yded) ==
    IF yded > 0
    THEN LET use == Min(allowed, yded)
         IN  [pat |-> use, yded |-> yded - use, rem |-> allowed - use]
    ELSE [pat |-> 0, yded |-> yded, rem |-> allowed]

\* line 119 without the min: the coinsurance is not capped by oop_remaining
CoinsPat_Uncapped(rem, rate, oop) == (rem * rate) \div 100

\* line 119: min(rem * coinsurance_rate, oop_remaining); rate is a percentage
\* and rem a whole number of cents, so the product is exact
CoinsPat(rem, rate, oop) == Min((rem * rate) \div 100, oop)

\* lines 117-127 with line 120 as coins_ins = rem: insurance pays the whole
\* remainder and the patient the coinsurance on top
CoinsurancePhase_InsuranceAll(rem, pat, rate, oop) ==
    IF rem > 0
    THEN IF oop > 0
         THEN LET coins_pat == Min((rem * rate) \div 100, oop)
              IN  [pat |-> pat + coins_pat, ins |-> rem, oop |-> oop - coins_pat]
         ELSE [pat |-> pat, ins |-> rem, oop |-> oop]
    ELSE [pat |-> pat, ins |-> 0, oop |-> oop]

\* lines 117-127 without the test of line 118: coinsurance is charged even
\* when nothing is left of the out-of-pocket maximum
CoinsurancePhase_NoOopTest(rem, pat, rate, oop) ==
    IF rem > 0
    THEN LET coins_pat == (rem * rate) \div 100
         IN  [pat |-> pat + coins_pat, ins |-> rem - coins_pat,
              oop |-> Max(oop - coins_pat, 0)]
    ELSE [pat |-> pat, ins |-> 0, oop |-> oop]

\* lines 117-127
CoinsurancePhase(rem, pat, rate, oop) ==
    IF rem > 0
    THEN IF oop > 0
         THEN LET coins_pat == CoinsPat(rem, rate, oop)
              IN  [pat |-> pat + coins_pat, ins |-> rem - coins_pat,
                   oop |-> oop - coins_pat]
         ELSE [pat |-> pat, ins |-> rem, oop |-> oop]
    ELSE [pat |-> pat, ins |-> 0, oop |-> oop]

\* lines 129-133, with the two amounts already rounded
ScheduleRow(month_index, pat2, ins2) ==
    [Month |-> month_name[month_index], PatientPays |-> pat2, InsurancePays |-> ins2]

PatientPaysColumn(rows) == [k \in 1..Len(rows) |-> rows[k].PatientPays]

InsurancePaysColumn(rows) == [k \in 1..Len(rows) |-> rows[k].InsurancePays]

\* line 140: df_setup["Price"].sum() + df_schedule["Patient Pays"].sum()
EstimatedPatient(setup, rows) == SumSeq(setup) + SumSeq(PatientPaysColumn(rows))

\* line 141
EstimatedInsurance(rows) == SumSeq(InsurancePaysColumn(rows))

\* line 142 multiplying by the number of schedule rows instead of max_months
TotalAllUpfront_RowsOnly(fs) ==
    SupplyTotal(fs) + MonthlyTotal(fs) * (MaxMonths(fs) - 1)

\* line 142
TotalAllUpfront(fs) == SupplyTotal(fs) + MonthlyTotal(fs) * MaxMonths(fs)

----------------------------------------------------------------------------
(* The page, lines 154-281 *)

\* an untouched cell of the editor; an edited cell holds << price >>
NoEdit == << >>

NoPdf == "none"

\* lines 159-168: the table handed in, with the user's edits applied
DataEditor(prices, ed) ==
    [k \in 1..Len(prices) |-> IF ed[k] = NoEdit THEN prices[k] ELSE ed[k][1]]

\* lines 221-223, 243, 244, 249, 255: the setup rows of table 1 and the totals
\* of tables 3, 4 and 5 of the generated document
PdfTables(setup, est_pat, est_ins, upfront) ==
    [SetupPrices |-> setup, PatientPaid |-> est_pat, InsurancePaid |-> est_ins,
     FullPrepay |-> est_pat, CombinedCost |-> upfront]

----------------------------------------------------------------------------
(* Inputs *)

\* longest rental duration tried besides the configured one
MaxRental == 14

\* durations of the two Monthly items: the configured schedule, one whose
\* items end at different months, and one that runs past a full year
FeeSchedules ==
    { DefaultFeeSchedule, FeeSchedule(MaxRental, 3), FeeSchedule(MaxRental, MaxRental) }

Months == 1..12

ResetMonths == {1, 6}

\* 0, less than one month's charge (leaves an odd number of cents), exactly
\* one month's charge, the default
DeductibleTotals == {0, Cents(5001), Cents(9556), Cents(35000)}

DeductibleMets == {0, Cents(35000)}

OopMaxes == {0, Cents(93000)}

OopMets == {0, Cents(91251)}

Rates == {0, 20, 50, 100}

\* prices a user types into the setup table
EditPrices == {0, Cents(3000)}

----------------------------------------------------------------------------
(* One run of the script *)

\* lines 61-63, 80, 93-94 and the entry of the loop at line 97
StartRun(pressed) ==
    /\ button' = pressed
    /\ pc' = "loop"
    /\ m' = 2
    /\ year_ded_remaining' = InitialRemaining(deductible_total', deductible_met')
    /\ oop_remaining' = InitialRemaining(oop_max', oop_met')
    /\ schedule' = << >>
    /\ log' = << >>
    /\ df_setup' = BuildSetup(fee_schedule')
    /\ setup_total' = 0
    /\ estimated_patient' = 0
    /\ estimated_insurance' = 0
    /\ total_all_upfront' = 0
    /\ pdf' = NoPdf

\* the first run of a session with the given inputs
FirstRun ==
    /\ editor = [k \in 1..Len(fee_schedule) |-> NoEdit]
    /\ button = FALSE
    /\ pc = "loop"
    /\ m = 2
    /\ year_ded_remaining = InitialRemaining(deductible_total, deductible_met)
    /\ oop_remaining = InitialRemaining(oop_max, oop_met)
    /\ schedule = << >>
    /\ log = << >>
    /\ df_setup = BuildSetup(fee_schedule)
    /\ setup_total = 0
    /\ estimated_patient = 0
    /\ estimated_insurance = 0
    /\ total_all_upfront = 0
    /\ pdf = NoPdf

\* the engine over the input space
Init ==
    /\ fee_schedule \in FeeSchedules
    /\ eff_month \in Months
    /\ reset_month \in ResetMonths
    /\ deductible_total \in DeductibleTotals
    /\ deductible_met \in DeductibleMets
    /\ oop_max \in OopMaxes
    /\ oop_met \in OopMets
    /\ coinsurance_rate \in Rates
    /\ FirstRun

\* the page as it opens: the widget defaults of lines 31-48
InitUI ==
    /\ fee_schedule = DefaultFeeSchedule
    /\ eff_month = 1
    /\ reset_month = 1
    /\ deductible_total = Cents(35000)
    /\ deductible_met = Cents(35000)
    /\ oop_max = Cents(400000)
    /\ oop_met = Cents(91251)
    /\ coinsurance_rate = 20
    /\ FirstRun

\* one iteration of the loop, lines 97-133
MonthIter ==
    /\ pc = "loop"
    /\ m <= MaxMonths(fee_schedule)
    /\ LET allowed == Allowed(fee_schedule, m)
           month_index == MonthIndex(eff_month, m)
           yded == AfterReset(month_index, reset_month, deductible_total,
                              year_ded_remaining)
           d == DeductiblePhase(allowed, yded)
           c == CoinsurancePhase(d.rem, d.pat, coinsurance_rate, oop_remaining)
       IN  /\ year_ded_remaining' = d.yded
           /\ oop_remaining' = c.oop
           /\ \E pat2 \in Round2(c.pat), ins2 \in Round2(c.ins) :
                 schedule' = Append(schedule, ScheduleRow(month_index, pat2, ins2))
           /\ log' = Append(log, [m |-> m, allowed |-> allowed,
                                  reset |-> ResetDue(month_index, reset_month),
                                  ded_before |-> year_ded_remaining,
                                  ded_in_force |-> yded, oop_in_force |-> oop_remaining,
                                  pat |-> c.pat, ins |-> c.ins,
                                  ded_after |-> d.yded, oop_after |-> c.oop])
    /\ m' = m + 1
    /\ UNCHANGED << params, editor, button, pc, outputs >>

\* the rest of the run after the loop, lines 135-281
Render ==
    /\ pc = "loop"
    /\ m > MaxMonths(fee_schedule)
    /\ LET est_pat == EstimatedPatient(df_setup, schedule)
           est_ins == EstimatedInsurance(schedule)
           upfront == TotalAllUpfront(fee_schedule)
           edited_setup == DataEditor(df_setup, editor)
       IN  /\ estimated_patient' = est_pat
           /\ estimated_insurance' = est_ins
           /\ total_all_upfront' = upfront
           /\ df_setup' = edited_setup
           /\ setup_total' = SumSeq(edited_setup)
           /\ pdf' = IF button
                     THEN PdfTables(edited_setup, est_pat, est_ins, upfront)
                     ELSE NoPdf
    /\ pc' = "ui"
    /\ UNCHANGED << params, editor, button, m, year_ded_remaining, oop_remaining,
                    schedule, log >>

\* the user types price p into row k of the setup table; the script reruns
EditPrice ==
    /\ pc = "ui"
    /\ \E k \in 1..Len(df_setup), p \in EditPrices :
          /\ editor[k] # << p >>
          /\ editor' = [editor EXCEPT ![k] = << p >>]
    /\ UNCHANGED params
    /\ StartRun(FALSE)

\* the user changes the coinsurance rate in the sidebar; the script reruns
SetCoinsurance ==
    /\ pc = "ui"
    /\ \E r \in Rates :
          /\ r # coinsurance_rate
          /\ coinsurance_rate' = r
    /\ UNCHANGED << fee_schedule, eff_month, deductible_total, deductible_met,
                    oop_max, oop_met, reset_month, editor >>
    /\ StartRun(FALSE)

\* the user presses "Generate PDF Report", line 186; the script reruns
GeneratePDF ==
    /\ pc = "ui"
    /\ UNCHANGED << params, editor >>
    /\ StartRun(TRUE)

Next == MonthIter \/ Render

Spec == Init /\ [][Next]_vars

NextUI == MonthIter \/ Render \/ EditPrice \/ SetCoinsurance \/ GeneratePDF

SpecUI == InitUI /\ [][NextUI]_vars

----------------------------------------------------------------------------
(* Vocabulary of the properties *)

Rows == 1..Len(schedule)

\* the calendar month k months after month mo, December wrapping to January
RECURSIVE AddMonths(_, _)
AddMonths(mo, k) ==
    IF k = 0 THEN mo ELSE AddMonths(IF mo = 12 THEN 1 ELSE mo + 1, k - 1)

MonthlyItems == {k \in 1..Len(fee_schedule) : fee_schedule[k].type = "monthly"}

OneTimeItems == {k \in 1..Len(fee_schedule) : fee_schedule[k].type = "one-time"}

RECURSIVE ChargesOf(_)
ChargesOf(items) ==
    IF items = {} THEN 0
    ELSE LET k == CHOOSE x \in items : TRUE
         IN  fee_schedule[k].charge + ChargesOf(items \ {k})

\* the sum of the charges of all Monthly items
AllowedMonthly == ChargesOf(MonthlyItems)

\* the largest totalMonths over the Monthly items
LargestDuration ==
    CHOOSE d \in {fee_schedule[k].months : k \in MonthlyItems} :
        \A k \in MonthlyItems : fee_schedule[k].months <= d

UniformDuration ==
    \A j, k \in MonthlyItems : fee_schedule[j].months = fee_schedule[k].months

InitialOop == IF oop_max > oop_met THEN oop_max - oop_met ELSE 0

PatientTotal == SumSeq(PatientPaysColumn(schedule))

----------------------------------------------------------------------------
(* C1: for every row of the monthly schedule, the emitted patientPays plus *)
(* the emitted insurancePays equals the allowed monthly charge (the sum of *)
(* the charges of all Monthly items) within 2-decimal rounding: the        *)
(* unrounded amounts add up to it exactly and the two rounded amounts to   *)
(* within one cent of it.                                                  *)
C1_PaysSumToAllowed ==
    \A k \in Rows :
        /\ log[k].pat + log[k].ins = AllowedMonthly
        /\ Abs(schedule[k].PatientPays + schedule[k].InsurancePays - AllowedMonthly)
             <= Unit

\* a row split between patient and insurance whose rounded amounts miss the
\* allowed charge by a cent
C1_Witness ==
    \E k \in Rows :
        /\ schedule[k].PatientPays > 0
        /\ schedule[k].InsurancePays > 0
        /\ schedule[k].PatientPays + schedule[k].InsurancePays # AllowedMonthly

(* C2: after an edit of a price in the setup table and the rerun, the      *)
(* estimated patient total on screen and in the document, and the prepay   *)
(* amount in the document, are the sum of the edited setup prices plus the *)
(* sum of the schedule's patientPays.                                      *)
C2_TotalsUseEditedPrices ==
    pc = "ui" =>
        /\ estimated_patient = SumSeq(df_setup) + PatientTotal
        /\ pdf # NoPdf =>
             /\ pdf.PatientPaid = SumSeq(pdf.SetupPrices) + PatientTotal
             /\ pdf.FullPrepay = SumSeq(pdf.SetupPrices) + PatientTotal

(* C3: the sum of patientPays over all rows of the schedule never exceeds  *)
(* the initial out-of-pocket remainder max(oopMax - oopMet, 0).            *)
C3_PatientTotalWithinOop == PatientTotal <= InitialOop

(* C4: from each iterated month to the next oopRemaining never rises, is   *)
(* never reset, and never drops below 0.                                   *)
C4_OopNonIncreasing ==
    [][oop_remaining' <= oop_remaining /\ oop_remaining' >= 0]_vars

\* the schedule has passed the reset month after the first row, and the
\* coinsurance has used part of the out-of-pocket remainder
C4_Witness ==
    /\ \E k \in Rows : k > 1 /\ log[k].reset
    /\ oop_remaining > 0
    /\ oop_remaining < InitialOop

(* C5: in every iterated month whose calendar month is the reset month,    *)
(* yearDeductibleRemaining is deductibleTotal before the deductible phase; *)
(* in every other iterated month it enters the phase unchanged; no month's *)
(* phase increases it; and of any 12 consecutive iterated months exactly   *)
(* one resets.                                                             *)
C5_DeductibleReset ==
    /\ \A k \in Rows :
          /\ log[k].reset <=> schedule[k].Month = month_name[reset_month]
          /\ log[k].reset => log[k].ded_in_force = deductible_total
          /\ ~log[k].reset => log[k].ded_in_force = log[k].ded_before
          /\ log[k].ded_after <= log[k].ded_in_force
          /\ log[k].ded_before =
                IF k = 1 THEN InitialRemaining(deductible_total, deductible_met)
                ELSE log[k - 1].ded_after
    /\ \A k \in Rows :
          k + 11 \in Rows => Cardinality({j \in k..(k + 11) : log[j].reset}) = 1

\* a window of 12 iterated months whose reset raises a partly used deductible
\* to the full total, although part of the deductible had been met
C5_Witness ==
    /\ Len(log) >= 12
    /\ deductible_met > 0
    /\ \E k \in Rows : k > 1 /\ log[k].reset /\ log[k].ded_before < deductible_total

(* C6: in month m the allowed charge contains only the charges of the      *)
(* Monthly items with totalMonths >= m.                                    *)
C6_PerItemDuration ==
    \A k \in Rows :
        log[k].allowed =
            ChargesOf({j \in MonthlyItems : fee_schedule[j].months >= log[k].m})

(* C7: the finished schedule has exactly maxMonths - 1 rows, and the k-th  *)
(* row is labelled with the calendar month k months after the effective    *)
(* month, December wrapping to January.                                    *)
C7_RowsAndLabels ==
    /\ pc = "ui" => Len(schedule) = LargestDuration - 1
    /\ \A k \in Rows : schedule[k].Month = month_name[AddMonths(eff_month, k)]

\* a finished schedule longer than a year that starts late in the year
C7_Witness ==
    /\ pc = "ui"
    /\ eff_month = 11
    /\ Len(schedule) > 12
    /\ schedule[1].Month = "December"
    /\ schedule[2].Month = "January"

(* C8: in a month whose deductible remaining in force D is at least the    *)
(* allowed amount A, the patient pays exactly A, insurance pays 0, and     *)
(* oopRemaining is left unchanged.                                         *)
C8_DeductibleCoversMonth ==
    \A k \in Rows :
        log[k].ded_in_force >= log[k].allowed =>
            /\ schedule[k].PatientPays = log[k].allowed
            /\ schedule[k].InsurancePays = 0
            /\ log[k].oop_after = log[k].oop_in_force

\* a month with D > A while coinsurance and out-of-pocket room are available,
\* followed by a month the deductible covers only in part
C8_Witness ==
    /\ coinsurance_rate > 0
    /\ \E k \in Rows :
          log[k].ded_in_force > log[k].allowed /\ log[k].oop_in_force > 0
    /\ \E k \in Rows :
          log[k].ded_in_force > 0 /\ log[k].ded_in_force < log[k].allowed

\* the boundary D = A, with coinsurance and out-of-pocket room available
C8_BoundaryReached ==
    /\ coinsurance_rate > 0
    /\ \E k \in Rows :
          log[k].ded_in_force = log[k].allowed /\ log[k].oop_in_force > 0

(* C9: in a month in which the deductible remaining in force and           *)
(* oopRemaining are both 0, the patient pays 0 and insurance pays the full *)
(* allowed amount.                                                         *)
C9_NothingLeftToPay ==
    \A k \in Rows :
        (log[k].ded_in_force = 0 /\ log[k].oop_in_force = 0) =>
            /\ schedule[k].PatientPays = 0
            /\ schedule[k].InsurancePays = log[k].allowed

\* such a month after the coinsurance has used up the out-of-pocket remainder
C9_Witness ==
    /\ coinsurance_rate > 0
    /\ InitialOop > 0
    /\ \E k \in Rows : log[k].ded_in_force = 0 /\ log[k].oop_in_force = 0

(* C10: with the setup table unedited and one duration for all Monthly     *)
(* items, the estimated patient total plus the estimated insurance total   *)
(* equals totalAllUpfront = OneTime charges + Monthly charges * maxMonths, *)
(* within one cent per row of the schedule.                                *)
C10_TotalsConserved ==
    (pc = "ui" /\ UniformDuration /\ \A k \in DOMAIN editor : editor[k] = NoEdit) =>
        /\ total_all_upfront =
              ChargesOf(OneTimeItems) + AllowedMonthly * LargestDuration
        /\ Abs(estimated_patient + estimated_insurance - total_all_upfront)
              <= Len(schedule) * Unit

\* finished totals to which both parties contribute and whose rounded rows
\* do not add up to the combined total exactly
C10_Witness ==
    /\ pc = "ui"
    /\ UniformDuration
    /\ PatientTotal > 0
    /\ estimated_insurance > 0
    /\ estimated_patient + estimated_insurance # total_all_upfront

====
